---------------------------- MODULE Spec2Model ----------------------------
(***************************************************************************)
(* pdf-merger-python, src/script.py: merge_pdfs().                         *)
(*                                                                         *)
(* The schema walk (process_section), the page cursor, the placement of    *)
(* the table-of-contents page, the rendering of the TOC rows with their    *)
(* navigation links, and the dot-leader arithmetic of one row.             *)
(*                                                                         *)
(* A schema node is a record                                               *)
(*   [title, kind, toc, files, children]                                   *)
(* kind = "list": a Python list of filenames; files[i] is the page count   *)
(*                of the PDF the i-th filename resolves to under           *)
(*                INPUT_DIR, 0 when os.path.exists() is false for it.      *)
(* kind = "dict": a Python dict; toc says whether it has the key "_toc_";  *)
(*                children are its items in declaration order.             *)
(* A dict's keys are distinct, so sibling titles are distinct.             *)
(***************************************************************************)
EXTENDS Integers, Sequences, FiniteSets, TLC

\* ------------------------------------------------------------------ bounds
\* A schema of the enumerated family has at most MaxSize nodes and filenames
\* together, and every file has at most MaxPages pages.
MaxSize == 4
MaxPages == 2
\* The widths of the dot-leader inputs range over 0..MaxWidth (points).
MaxWidth == 60
\* The deepest level a rendered row is drawn from in the dot-leader runs.
MaxLevel == 2

\* ---------------------------------------------------------------- the schema
Introduction == "Introduction"

\* Titles other than "Introduction" are interchangeable to the code (it only
\* ever compares a title with "Introduction"), so the k-th key of a dict is
\* either "Introduction" or the k-th of these names.
OtherTitles == <<"X", "A", "B", "C", "D", "E", "F", "G">>

ListNode(t, fs) ==
    [title |-> t, kind |-> "list", toc |-> FALSE, files |-> fs, children |-> <<>>]

DictNode(t, ch) ==
    [title |-> t, kind |-> "dict", toc |-> FALSE, files |-> <<>>, children |-> ch]

\* {"_toc_": True}: the TOC placement marker of config.example.py.
TocNode(t) ==
    [title |-> t, kind |-> "dict", toc |-> TRUE, files |-> <<>>, children |-> <<>>]

PageCounts == 0..MaxPages

\* The list nodes titled t with exactly s - 1 filenames.
ListsOfSize(s, t) == {ListNode(t, fs) : fs \in [1..(s - 1) -> PageCounts]}

RECURSIVE ForestsOfSize(_, _, _), TreesOfSize(_, _)
\* The nodes titled t whose nodes and filenames number exactly s.
TreesOfSize(s, t) ==
    IF s < 1 THEN {}
    ELSE ListsOfSize(s, t)
         \cup (IF s = 1 THEN {TocNode(t)} ELSE {})
         \cup {DictNode(t, ch) : ch \in ForestsOfSize(s - 1, 1, FALSE)}

\* The item sequences of a dict, from its k-th key on, of exactly size n;
\* intro: a key before the k-th is already "Introduction".
ForestsOfSize(n, k, intro) ==
    IF n = 0 THEN {<<>>}
    ELSE UNION {
           UNION {
             {<<t>> \o r : t \in TreesOfSize(s, ttl),
                           r \in ForestsOfSize(n - s, k + 1, intro \/ ttl = Introduction)}
             : ttl \in {OtherTitles[k]} \cup (IF intro THEN {} ELSE {Introduction}) }
           : s \in 1..n }

\* The end-to-end scenario of the specification: the marker first, a section
\* "A" holding the leaf "X" with one 2-page document, the leaf "B" with one
\* 3-page document.
EndToEndSchema ==
    << TocNode("X"),
       DictNode("A", <<ListNode("X", <<2>>)>>),
       ListNode("B", <<3>>) >>

SchemaSet ==
    UNION {ForestsOfSize(n, 1, FALSE) : n \in 0..MaxSize} \cup {EndToEndSchema}

\* ------------------------------------------------------------------- state
VARIABLES
    SCHEMA,           \* config.SCHEMA: the top-level dict's items, in order
    mainpc,           \* where merge_pdfs is: "walk", "render", "done", "aborted"
    top_i,            \* how many items of SCHEMA the loop of line 75 has taken
    stack,            \* the active calls of process_section, innermost last
    parent_sections,  \* line 72
    current_page,     \* line 35
    toc_page_number,  \* line 36; None is modelled as -1
    toc,              \* line 33: <<level, title, page>>
    visible_toc,      \* line 34: <<title, page, level>>
    toc_src,          \* history: the path (titles from the root) and kind of
                      \* the node that appended visible_toc[i]
    doc,              \* the pages of the output document, in order
    warnings,         \* what was printed with a warning sign, in order
    row,              \* how many rows of visible_toc the loop of line 111 has drawn
    y_position,       \* line 104
    last_level,       \* line 109
    links,            \* the links inserted on the TOC page (line 163)
    outline,          \* what doc.set_toc was given (line 174), <<>> before
    dots              \* the dot-leader computation of one row (lines 127-153)

walkvars == <<SCHEMA, mainpc, top_i, stack, parent_sections, current_page,
              toc_page_number, toc, visible_toc, toc_src, doc, warnings,
              row, y_position, last_level, links, outline>>

vars == <<SCHEMA, mainpc, top_i, stack, parent_sections, current_page,
          toc_page_number, toc, visible_toc, toc_src, doc, warnings,
          row, y_position, last_level, links, outline, dots>>

None == -1

NoDots == [phase |-> "idle", level |-> 0, content_width |-> 0, title_width |-> 0,
           page_num_width |-> 0, dot_width |-> 1, num_dots |-> 0, drawn |-> 0]

Init ==
    /\ SCHEMA \in SchemaSet
    /\ mainpc = "walk"
    /\ top_i = 0
    /\ stack = <<>>
    /\ parent_sections = <<>>
    /\ current_page = 1
    /\ toc_page_number = None
    /\ toc = <<>>
    /\ visible_toc = <<>>
    /\ toc_src = <<>>
    /\ doc = <<>>
    /\ warnings = <<>>
    /\ row = 0
    /\ y_position = 100
    /\ last_level = 1
    /\ links = <<>>
    /\ outline = <<>>
    /\ dots = NoDots

\* ------------------------------------------------------------ process_section
Top == stack[Len(stack)]

Pop(s) == SubSeq(s, 1, Len(s) - 1)

SetTop(f) == [stack EXCEPT ![Len(stack)] = f]

\* A call process_section(title, content, level) at its first line.
Call(content, level) ==
    [title |-> content.title, content |-> content, level |-> level,
     pc |-> "entry", i |-> 0, start |-> current_page]

AtEntry == mainpc = "walk" /\ stack # <<>> /\ Top.pc = "entry"

\* isinstance(content, dict) and "_toc_" in content
IsTocMarker(content) == content.kind = "dict" /\ content.toc

\* any(parent["title"] == "Introduction" for parent in parent_sections)
UnderIntroduction(parents) ==
    \E k \in 1..Len(parents) : parents[k].title = Introduction

\* The titles from the root down to the node the innermost call is on.
PathOf(parents, title) ==
    [k \in 1..(Len(parents) + 1) |->
        IF k <= Len(parents) THEN parents[k].title ELSE title]

\* toc.append([level, title, current_page])
TocEntry(level, title, page) == <<level, title, page>>

\* visible_toc.append((title, current_page, level))
VisibleEntry(title, page, level) == <<title, page, level>>

\* for section, content in SCHEMA.items(): process_section(section, content, level=1)
CallTop ==
    /\ mainpc = "walk"
    /\ stack = <<>>
    /\ top_i < Len(SCHEMA)
    /\ top_i' = top_i + 1
    /\ stack' = <<Call(SCHEMA[top_i + 1], 1)>>
    /\ UNCHANGED <<SCHEMA, mainpc, parent_sections, current_page, toc_page_number,
                   toc, visible_toc, toc_src, doc, warnings, row, y_position,
                   last_level, links, outline, dots>>

\* A variant: the insertion page taken to be the cursor itself.
TocPlacementAtCursor(cursor) == cursor

\* toc_page_number = current_page - 1
TocPlacement(cursor) == cursor - 1

\* A variant: no page slot reserved for the TOC.
ReserveNothing(cursor) == cursor

\* current_page += 1
ReservePage(cursor) == cursor + 1

\* A variant: the marker test placed after the dict branch has listed the node.
TocMarkerListed ==
    /\ AtEntry
    /\ IsTocMarker(Top.content)
    /\ toc' = Append(toc, TocEntry(Top.level, Top.title, current_page))
    /\ visible_toc' = Append(visible_toc,
                             VisibleEntry(Top.title, current_page, Top.level))
    /\ toc_src' = Append(toc_src, [path |-> PathOf(parent_sections, Top.title),
                                   kind |-> "dict"])
    /\ toc_page_number' = TocPlacement(current_page)
    /\ current_page' = ReservePage(current_page)
    /\ stack' = Pop(stack)
    /\ UNCHANGED <<SCHEMA, mainpc, top_i, parent_sections, doc, warnings, row,
                   y_position, last_level, links, outline, dots>>

\* Lines 41-44: the placement marker.
TocMarker ==
    /\ AtEntry
    /\ IsTocMarker(Top.content)
    /\ toc_page_number' = TocPlacement(current_page)
    /\ current_page' = ReservePage(current_page)
    /\ stack' = Pop(stack)
    /\ UNCHANGED <<SCHEMA, mainpc, top_i, parent_sections, toc, visible_toc,
                   toc_src, doc, warnings, row, y_position, last_level, links,
                   outline, dots>>

\* Lines 46-49: a list; its entry unless an ancestor is "Introduction".
EnterList ==
    /\ AtEntry
    /\ ~IsTocMarker(Top.content)
    /\ Top.content.kind = "list"
    /\ IF ~UnderIntroduction(parent_sections)
       THEN /\ toc' = Append(toc, TocEntry(Top.level, Top.title, current_page))
            /\ visible_toc' = Append(visible_toc,
                                     VisibleEntry(Top.title, current_page, Top.level))
            /\ toc_src' = Append(toc_src,
                                 [path |-> PathOf(parent_sections, Top.title),
                                  kind |-> "list"])
       ELSE UNCHANGED <<toc, visible_toc, toc_src>>
    /\ stack' = SetTop([Top EXCEPT !.pc = "files"])
    /\ UNCHANGED <<SCHEMA, mainpc, top_i, parent_sections, current_page,
                   toc_page_number, doc, warnings, row, y_position, last_level,
                   links, outline, dots>>

AtFile ==
    /\ mainpc = "walk" /\ stack # <<>>
    /\ Top.pc = "files"
    /\ Top.i < Len(Top.content.files)

\* A variant: no existence test before opening the file.
ExistsAlways(page_count) == TRUE

\* os.path.exists(pdf_path)
Exists(page_count) == page_count > 0

\* The pages of the file'th document of the list at path, in order.
PagesOf(path, file, page_count) ==
    [k \in 1..page_count |-> [path |-> path, file |-> file, page |-> k]]

\* doc.insert_pdf(sub_doc, links=True, annots=True): appended after the last page.
InsertPdfPages(d, pages) == d \o pages

\* A variant: the cursor advanced by one per document.
AdvanceByOne(cursor, page_count) == cursor + 1

\* current_page += page_count
Advance(cursor, page_count) == cursor + page_count

\* Lines 53-58: a filename whose path exists.
InsertPdf ==
    /\ AtFile
    /\ LET page_count == Top.content.files[Top.i + 1] IN
       /\ Exists(page_count)
       /\ doc' = InsertPdfPages(doc, PagesOf(PathOf(parent_sections, Top.title),
                                             Top.i + 1, page_count))
       /\ current_page' = Advance(current_page, page_count)
    /\ stack' = SetTop([Top EXCEPT !.i = @ + 1])
    /\ UNCHANGED <<SCHEMA, mainpc, top_i, parent_sections, toc_page_number, toc,
                   visible_toc, toc_src, warnings, row, y_position, last_level,
                   links, outline, dots>>

\* Lines 59-60: a filename whose path does not exist.
FileNotFound ==
    /\ AtFile
    /\ ~Exists(Top.content.files[Top.i + 1])
    /\ warnings' = Append(warnings, "File not found")
    /\ stack' = SetTop([Top EXCEPT !.i = @ + 1])
    /\ UNCHANGED <<SCHEMA, mainpc, top_i, parent_sections, current_page,
                   toc_page_number, toc, visible_toc, toc_src, doc, row,
                   y_position, last_level, links, outline, dots>>

\* The loop of line 51 is over: the call returns.
ReturnList ==
    /\ mainpc = "walk" /\ stack # <<>>
    /\ Top.pc = "files"
    /\ Top.i = Len(Top.content.files)
    /\ stack' = Pop(stack)
    /\ UNCHANGED <<SCHEMA, mainpc, top_i, parent_sections, current_page,
                   toc_page_number, toc, visible_toc, toc_src, doc, warnings, row,
                   y_position, last_level, links, outline, dots>>

\* if title != "Introduction" (line 63)
SectionListed(title) == title # Introduction

\* Lines 62-67: a dict that is no marker; its entry unless it is titled
\* "Introduction"; then it is pushed on parent_sections.
EnterDict ==
    /\ AtEntry
    /\ ~IsTocMarker(Top.content)
    /\ Top.content.kind = "dict"
    /\ IF SectionListed(Top.title)
       THEN /\ toc' = Append(toc, TocEntry(Top.level, Top.title, current_page))
            /\ visible_toc' = Append(visible_toc,
                                     VisibleEntry(Top.title, current_page, Top.level))
            /\ toc_src' = Append(toc_src,
                                 [path |-> PathOf(parent_sections, Top.title),
                                  kind |-> "dict"])
       ELSE UNCHANGED <<toc, visible_toc, toc_src>>
    /\ parent_sections' = Append(parent_sections,
                                 [title |-> Top.title, level |-> Top.level])
    /\ stack' = SetTop([Top EXCEPT !.pc = "children"])
    /\ UNCHANGED <<SCHEMA, mainpc, top_i, current_page, toc_page_number, doc,
                   warnings, row, y_position, last_level, links, outline, dots>>

\* Lines 68-69: the recursive call on the next item.
CallChild ==
    /\ mainpc = "walk" /\ stack # <<>>
    /\ Top.pc = "children"
    /\ Top.i < Len(Top.content.children)
    /\ stack' = Append(SetTop([Top EXCEPT !.i = @ + 1]),
                       Call(Top.content.children[Top.i + 1], Top.level + 1))
    /\ UNCHANGED <<SCHEMA, mainpc, top_i, parent_sections, current_page,
                   toc_page_number, toc, visible_toc, toc_src, doc, warnings, row,
                   y_position, last_level, links, outline, dots>>

\* Line 70: parent_sections.pop(), and the call returns.
ReturnDict ==
    /\ mainpc = "walk" /\ stack # <<>>
    /\ Top.pc = "children"
    /\ Top.i = Len(Top.content.children)
    /\ parent_sections' = Pop(parent_sections)
    /\ stack' = Pop(stack)
    /\ UNCHANGED <<SCHEMA, mainpc, top_i, current_page, toc_page_number, toc,
                   visible_toc, toc_src, doc, warnings, row, y_position,
                   last_level, links, outline, dots>>

\* ------------------------------------------------------- after the walk
\* The blank page the TOC is drawn on.
TocPage == [path |-> <<>>, file |-> 0, page |-> 0]

\* A variant: new_page() without the page number, which appends.
NewPageAtEnd(d, pno) == Append(d, TocPage)

\* doc.new_page(pno): a new page in front of the page with index pno
\* (zero-based); pno = len(doc) puts it after the last page.
NewPage(d, pno) == SubSeq(d, 1, pno) \o <<TocPage>> \o SubSeq(d, pno + 1, Len(d))

\* Lines 78-83: the default placement, and the TOC page. The backend refuses
\* a page number beyond the end of the document; the exception ends the run.
InsertTocPage ==
    /\ mainpc = "walk"
    /\ stack = <<>>
    /\ top_i = Len(SCHEMA)
    /\ LET pno == IF toc_page_number = None THEN 0 ELSE toc_page_number IN
       /\ toc_page_number' = pno
       /\ warnings' = IF toc_page_number = None
                      THEN Append(warnings, "No TOC placement found")
                      ELSE warnings
       /\ IF pno <= Len(doc)
          THEN doc' = NewPage(doc, pno) /\ mainpc' = "render"
          ELSE doc' = doc /\ mainpc' = "aborted"
    /\ UNCHANGED <<SCHEMA, top_i, stack, parent_sections, current_page, toc,
                   visible_toc, toc_src, row, y_position, last_level, links,
                   outline, dots>>

\* "page": page_number - 1
LinkTarget(page_number) == page_number - 1

\* indent = 30 * (level - 1)
Indent(level) == 30 * (level - 1)

\* Lines 111-171, one iteration: where the row is drawn and the link on it.
\* The dot leader of the row is DotLeader below.
RenderRow ==
    /\ mainpc = "render"
    /\ row < Len(visible_toc)
    /\ LET title       == visible_toc[row + 1][1]
           page_number == visible_toc[row + 1][2]
           level       == visible_toc[row + 1][3]
           text_y      == IF level = 1 /\ last_level # 1
                          THEN y_position + 40 ELSE y_position
           text_x      == 50 + Indent(level)
       IN /\ links' = Append(links, [kind |-> "goto", x |-> text_x, y |-> text_y,
                                     page |-> LinkTarget(page_number)])
          /\ y_position' = text_y + 25
          /\ last_level' = level
    /\ row' = row + 1
    /\ UNCHANGED <<SCHEMA, mainpc, top_i, stack, parent_sections, current_page,
                   toc_page_number, toc, visible_toc, toc_src, doc, warnings,
                   outline, dots>>

\* Lines 174-185: the outline is handed to the backend and the file saved.
SetToc ==
    /\ mainpc = "render"
    /\ row = Len(visible_toc)
    /\ outline' = toc
    /\ mainpc' = "done"
    /\ UNCHANGED <<SCHEMA, top_i, stack, parent_sections, current_page,
                   toc_page_number, toc, visible_toc, toc_src, doc, warnings, row,
                   y_position, last_level, links, dots>>

Next ==
    \/ CallTop
    \/ TocMarker
    \/ EnterList
    \/ InsertPdf
    \/ FileNotFound
    \/ ReturnList
    \/ EnterDict
    \/ CallChild
    \/ ReturnDict
    \/ InsertTocPage
    \/ RenderRow
    \/ SetToc

Spec == Init /\ [][Next]_vars

\* --------------------------------------------------- the dot leader of a row
\* int(x / y) of Python: the quotient truncated towards zero (y > 0).
IntDiv(x, y) == IF x >= 0 THEN x \div y ELSE -((-x) \div y)

\* A variant: the title's width added instead of subtracted.
DotsWidthAddsTitle(content_width, indent, title_width, page_num_width) ==
    content_width - indent + title_width - page_num_width - 20

\* dots_width = content_width - indent - title_width - page_num_width - 20
DotsWidth(content_width, indent, title_width, page_num_width) ==
    content_width - indent - title_width - page_num_width - 20

\* num_dots = int(dots_width / dot_width)
NumDots(content_width, indent, title_width, page_num_width, dot_width) ==
    IntDiv(DotsWidth(content_width, indent, title_width, page_num_width), dot_width)

\* len(dot_char * num_dots): a string times a negative number is empty.
Repeat(num_dots) == IF num_dots > 0 THEN num_dots ELSE 0

\* The widths the backend measured for one row (text_length), in points.
RowInputs ==
    [phase : {"measured"},
     level : 1..MaxLevel,
     content_width : {w \in 30..MaxWidth : w % 10 = 0},
     title_width : 0..MaxWidth,
     page_num_width : {5, 10},
     dot_width : 1..3,
     num_dots : {0},
     drawn : {0}]

InitDots ==
    /\ SCHEMA = <<>>
    /\ mainpc = "render"
    /\ top_i = 0
    /\ stack = <<>>
    /\ parent_sections = <<>>
    /\ current_page = 1
    /\ toc_page_number = 0
    /\ toc = <<>>
    /\ visible_toc = <<>>
    /\ toc_src = <<>>
    /\ doc = <<TocPage>>
    /\ warnings = <<>>
    /\ row = 0
    /\ y_position = 100
    /\ last_level = 1
    /\ links = <<>>
    /\ outline = <<>>
    /\ dots \in RowInputs

\* Lines 127-153 for one row.
DotLeader ==
    /\ dots.phase = "measured"
    /\ LET n == NumDots(dots.content_width, Indent(dots.level), dots.title_width,
                        dots.page_num_width, dots.dot_width)
       IN dots' = [dots EXCEPT !.phase = "drawn", !.num_dots = n, !.drawn = Repeat(n)]
    /\ UNCHANGED walkvars

NextDots == DotLeader

SpecDots == InitDots /\ [][NextDots]_vars

\* ------------------------------------------------------------- properties
RECURSIVE SumSeq(_)
SumSeq(q) == IF q = <<>> THEN 0 ELSE Head(q) + SumSeq(Tail(q))

\* The pages of the documents of the top-level groups before the N-th.
RECURSIVE PagesBefore(_)
PagesBefore(N) ==
    IF N <= 1 THEN 0 ELSE PagesBefore(N - 1) + SumSeq(SCHEMA[N - 1].files)

AllTopLists == \A j \in 1..Len(SCHEMA) : SCHEMA[j].kind = "list"

\* The placement markers of an item sequence, at any depth.
RECURSIVE MarkerCount(_)
MarkerCount(items) ==
    IF items = <<>> THEN 0
    ELSE (IF IsTocMarker(Head(items)) THEN 1 ELSE 0)
         + MarkerCount(Head(items).children) + MarkerCount(Tail(items))

\* C1: in a schema whose top-level nodes are all lists, the N-th group's entry
\* carries page 1 + the pages of all documents of the groups before it (a
\* missing file counting 0), and every group has its entry.
C1_LeafStartPage ==
    AllTopLists =>
        /\ Len(toc) = (IF stack = <<>> \/ Top.pc # "entry" THEN top_i ELSE top_i - 1)
        /\ Len(visible_toc) = Len(toc)
        /\ \A N \in 1..Len(toc) :
              /\ toc[N] = <<1, SCHEMA[N].title, 1 + PagesBefore(N)>>
              /\ visible_toc[N] = <<SCHEMA[N].title, 1 + PagesBefore(N), 1>>

C1_Witness ==
    /\ AllTopLists
    /\ mainpc = "done"
    /\ Len(SCHEMA) >= 2
    /\ \E j \in 1..Len(SCHEMA[1].files) : SCHEMA[1].files[j] = 0
    /\ toc[Len(toc)][3] >= 3

\* C2: no section titled "Introduction" and no descendant of one, list or
\* dict, at any depth, has an entry in visible_toc (or toc).
C2_NoEntryUnderIntroduction ==
    /\ Len(toc) = Len(visible_toc)
    /\ \A r \in 1..Len(visible_toc) :
          LET p == toc_src[r].path IN
          /\ ~ \E k \in 1..(Len(p) - 1) : p[k] = Introduction
          /\ ~ (toc_src[r].kind = "dict" /\ p[Len(p)] = Introduction)

\* The call the walk is about to run is on a placement marker.
AtMarker == AtEntry /\ IsTocMarker(Top.content)

\* C3 as stated: at the marker the recorded insertion page is the value the
\* cursor had just before, and the cursor moves on by exactly one.
C3_TocPageIsCursor ==
    [][AtMarker => /\ toc_page_number' = current_page
                   /\ current_page' = current_page + 1]_vars

\* C3, amended: at the marker the recorded insertion page is the value the
\* cursor had just before MINUS ONE; the cursor moves on by exactly one and
\* no recorded page number changes.
C3_TocPageIsCursorMinusOne ==
    [][AtMarker => /\ toc_page_number' = current_page - 1
                   /\ current_page' = current_page + 1
                   /\ toc' = toc
                   /\ visible_toc' = visible_toc]_vars

C3_Witness ==
    /\ mainpc = "walk"
    /\ toc_page_number >= 2
    /\ current_page = toc_page_number + 2
    /\ stack = <<>>

\* C4: on a marker the call records cursor - 1, advances the cursor by one and
\* returns at once: no entry, no page, no warning, the ancestor stack as it was,
\* and the caller's frame on top again.
C4_MarkerFrame ==
    [][AtMarker => /\ toc_page_number' = current_page - 1
                   /\ current_page' = current_page + 1
                   /\ stack' = SubSeq(stack, 1, Len(stack) - 1)
                   /\ UNCHANGED <<toc, visible_toc, doc, parent_sections,
                                  warnings, top_i, mainpc>>]_vars

C4_Witness ==
    /\ mainpc = "walk"
    /\ Len(stack) = 1
    /\ Top.pc = "children"
    /\ Top.i >= 1
    /\ IsTocMarker(Top.content.children[Top.i])
    /\ Len(toc) = 1
    /\ parent_sections # <<>>
    /\ toc_page_number = current_page - 2

\* C5: with no marker anywhere in the schema the insertion page is None all
\* through the walk; after it the page is 0, exactly one warning says so, the
\* run goes on and the TOC page is the first page of the document.
C5_DefaultPlacement ==
    MarkerCount(SCHEMA) = 0 =>
        /\ mainpc # "aborted"
        /\ mainpc = "walk" => toc_page_number = None
        /\ mainpc \in {"render", "done"} =>
              /\ toc_page_number = 0
              /\ Cardinality({k \in 1..Len(warnings) :
                                 warnings[k] = "No TOC placement found"}) = 1
              /\ doc[1] = TocPage
              /\ \A k \in 2..Len(doc) : doc[k] # TocPage

C5_Witness ==
    /\ MarkerCount(SCHEMA) = 0
    /\ mainpc = "done"
    /\ Len(doc) >= 3
    /\ visible_toc # <<>>

\* The next filename of the list being walked does not exist.
AtMissingFile == AtFile /\ Top.content.files[Top.i + 1] = 0

\* C6: a filename whose path does not exist gives one warning, no page and no
\* move of the cursor, and the loop goes on with the next filename; so over
\* the filenames taken so far the cursor has advanced by the pages of those
\* that exist.
C6_MissingFileSkipped ==
    /\ [](mainpc = "walk" /\ stack # <<>> /\ Top.pc = "files" =>
             current_page = Top.start + SumSeq(SubSeq(Top.content.files, 1, Top.i)))
    /\ [][AtMissingFile =>
             /\ warnings' = Append(warnings, "File not found")
             /\ doc' = doc
             /\ current_page' = current_page
             /\ stack' = [stack EXCEPT ![Len(stack)].i = @ + 1]]_vars

C6_Witness ==
    /\ mainpc = "walk"
    /\ stack # <<>>
    /\ Top.pc = "files"
    /\ Top.content.files = <<1, 0, 1>>
    /\ Top.i = 3
    /\ Len(warnings) = 1
    /\ Len(doc) = 2
    /\ current_page = Top.start + 2

\* C7 as stated: the end-to-end scenario ends with insertion page 0, "A" at
\* page 1 (level 1), "X" at page 1 (level 2), "B" at page 3 (level 1) and a
\* document of 6 pages.
C7_EndToEndAsStated ==
    (SCHEMA = EndToEndSchema /\ mainpc = "done") =>
        /\ toc_page_number = 0
        /\ visible_toc = << <<"A", 1, 1>>, <<"X", 1, 2>>, <<"B", 3, 1>> >>
        /\ Len(doc) = 6

\* C7, amended: the end-to-end scenario ends with insertion page 0, "A" at
\* page 2 (level 1), "X" at page 2 (level 2), "B" at page 4 (level 1) and a
\* document of 6 pages, the first of them the TOC page; the run is not aborted.
C7_EndToEnd ==
    SCHEMA = EndToEndSchema =>
        /\ mainpc # "aborted"
        /\ mainpc = "done" =>
              /\ toc_page_number = 0
              /\ visible_toc = << <<"A", 2, 1>>, <<"X", 2, 2>>, <<"B", 4, 1>> >>
              /\ outline = << <<1, "A", 2>>, <<2, "X", 2>>, <<1, "B", 4>> >>
              /\ Len(doc) = 6
              /\ doc[1] = TocPage

C7_Witness == SCHEMA = EndToEndSchema /\ mainpc = "done" /\ Len(links) = 3

\* num_dots of the drawn row had its title been w wide.
NumDotsAt(w) ==
    NumDots(dots.content_width, Indent(dots.level), w, dots.page_num_width,
            dots.dot_width)

\* C8 as stated: num_dots is never negative, and it is strictly smaller for
\* every wider title, the other widths being the same.
C8_DotsAsStated ==
    dots.phase = "drawn" =>
        /\ dots.num_dots >= 0
        /\ \A w \in 0..MaxWidth : w > dots.title_width => NumDotsAt(w) < dots.num_dots

\* C8, amended: the number of glyphs drawn is never negative (num_dots itself
\* is negative exactly when the remaining width is at most minus one glyph's
\* width, and then nothing is drawn); num_dots is never larger for a wider
\* title, and strictly smaller once the title is wider by two glyphs' width
\* (int() rounds towards zero, so around zero one glyph's width is not enough).
C8_Dots ==
    dots.phase = "drawn" =>
        /\ dots.drawn >= 0
        /\ dots.drawn = (IF dots.num_dots < 0 THEN 0 ELSE dots.num_dots)
        /\ dots.num_dots < 0 <=>
              dots.content_width - Indent(dots.level) - dots.title_width
                 - dots.page_num_width - 20 <= - dots.dot_width
        /\ \A w \in 0..MaxWidth :
              /\ w > dots.title_width => NumDotsAt(w) <= dots.num_dots
              /\ w >= dots.title_width + 2 * dots.dot_width =>
                    NumDotsAt(w) < dots.num_dots

C8_Witness ==
    /\ dots.phase = "drawn"
    /\ dots.num_dots < 0
    /\ dots.drawn = 0
    /\ dots.level = 2
    /\ dots.title_width < MaxWidth
    /\ NumDotsAt(dots.title_width + 1) = dots.num_dots

\* The pages of the final document that came from the node of row r.
PagesOfRow(r) == {k \in 1..Len(doc) : doc[k].path = toc_src[r].path}

\* C9: with at most one marker in the schema, the link of every row whose
\* entry inserted a page targets the first page of that entry's documents in
\* the final document.
C9_LinksHitContent ==
    (mainpc = "done" /\ MarkerCount(SCHEMA) <= 1) =>
        \A r \in 1..Len(links) :
            PagesOfRow(r) # {} =>
                /\ links[r].page + 1 \in PagesOfRow(r)
                /\ \A k \in PagesOfRow(r) : links[r].page + 1 <= k

\* C10: the outline given to set_toc starts at level 1 when it is not empty,
\* and no entry is more than one level deeper than the entry before it.
C10_OutlineWellFormed ==
    mainpc = "done" =>
        /\ outline # <<>> => outline[1][1] = 1
        /\ \A k \in 2..Len(outline) : outline[k][1] <= outline[k - 1][1] + 1

=============================================================================
